---- MODULE Spec2Model ----
(***************************************************************************)
(* FileHound: a file-discovery engine.  A FileHound instance accumulates   *)
(* filters and configuration through builder calls; find() walks every     *)
(* root asynchronously and findSync() walks them synchronously.            *)
(*                                                                         *)
(* The repository carries two builds of the class: the TypeScript source   *)
(* (src/src/filehound.ts, in which the walk is the method `search`) and    *)
(* the compiled distribution (src/dist/src/filehound.js, which delegates   *)
(* to ./matcher and ./walker/walk).  The variable `build` says which of    *)
(* the two an instance runs.                                               *)
(*                                                                         *)
(* One action is one synchronous run of JavaScript: a builder call, a      *)
(* findSync() call, a find() call up to the point where it returns its     *)
(* pending promise, or the completion of one directory listing together    *)
(* with every promise callback that this completion makes runnable.        *)
(* One find() call is followed at a time: find() is taken only when no     *)
(* listing of an earlier find() is still outstanding.                      *)
(***************************************************************************)
EXTENDS Integers, Sequences, FiniteSets, TLC

(***************************************************************************)
(* Bounds of the model.                                                    *)
(***************************************************************************)
MaxOps == 2
MaxSearches == 2
MaxCalls == 4

(***************************************************************************)
(* The file system the searches run against.  It does not change.          *)
(*   a/            s/ f.txt .h/          (listing order)                   *)
(*   a/s/          g.log t/                                                *)
(*   a/s/t/        z.txt                                                   *)
(*   a/.h/         k.txt                 (hidden directory)                *)
(*   b/            m.txt                                                   *)
(*   c/            u/ n.txt                                                *)
(*   c/u/          a directory whose listing fails                         *)
(*   x             does not exist                                          *)
(***************************************************************************)
Dirs == {"a", "a/s", "a/s/t", "a/.h", "b", "c", "c/u"}

Files ==
  {"a/f.txt", "a/s/g.log", "a/s/t/z.txt", "a/.h/k.txt", "b/m.txt", "c/n.txt"}

Unreadable == {"c/u"}

Entries == Dirs \cup Files

Children ==
  [d \in Dirs |->
     CASE d = "a"     -> <<"a/s", "a/f.txt", "a/.h">>
       [] d = "a/s"   -> <<"a/s/g.log", "a/s/t">>
       [] d = "a/s/t" -> <<"a/s/t/z.txt">>
       [] d = "a/.h"  -> <<"a/.h/k.txt">>
       [] d = "b"     -> <<"b/m.txt">>
       [] d = "c"     -> <<"c/u", "c/n.txt">>
       [] d = "c/u"   -> <<>>]

RootNames == {"a", "b", "c", "x"}

DepthOf ==
  [p \in Entries \cup RootNames |->
     CASE p \in {"a", "b", "c", "x"}                  -> 1
       [] p \in {"a/s", "a/f.txt", "a/.h", "b/m.txt"} -> 2
       [] p \in {"c/u", "c/n.txt"}                    -> 2
       [] p \in {"a/s/g.log", "a/s/t", "a/.h/k.txt"}  -> 3
       [] p = "a/s/t/z.txt"                           -> 4]

HiddenEntries == {"a/.h"}

\* The directory an entry is listed in.
ParentOf ==
  [p \in Entries \ {"a", "b", "c"} |->
     CASE p \in {"a/s", "a/f.txt", "a/.h"} -> "a"
       [] p \in {"c/u", "c/n.txt"}         -> "c"
       [] p \in {"a/s/g.log", "a/s/t"}     -> "a/s"
       [] p = "a/s/t/z.txt"                -> "a/s/t"
       [] p = "a/.h/k.txt"                 -> "a/.h"
       [] p = "b/m.txt"                    -> "b"]

ExtOf ==
  [p \in Entries |->
     CASE p \in {"a/f.txt", "a/s/t/z.txt", "a/.h/k.txt", "b/m.txt"} -> "txt"
       [] p = "c/n.txt"                                             -> "txt"
       [] p = "a/s/g.log"                                           -> "log"
       [] OTHER                                                     -> ""]

Cwd == "a"

\* An optional number (maxDepth): <<>> is undefined, <<n>> is the number n.
Undefined == <<>>

isDefined(value) == value # Undefined

(***************************************************************************)
(* Inputs of the builder calls.                                            *)
(***************************************************************************)
FilterIds == {"txt", "vis"}

DepthArgs == {0, 1}

PathArgs ==
  { <<"a", "b">>, <<"a", "x">>, <<"a", "a/s">>, <<"b", "./b">>, <<"c">>,
    <<"a/.h">>, <<>> }

(***************************************************************************)
(* Sequence helpers.                                                       *)
(***************************************************************************)
RECURSIVE SelectSeqBy(_, _, _)
SelectSeqBy(s, keep, k) ==
  IF k > Len(s) THEN <<>>
  ELSE IF s[k] \in keep THEN <<s[k]>> \o SelectSeqBy(s, keep, k + 1)
  ELSE SelectSeqBy(s, keep, k + 1)

Range(s) == {s[k] : k \in 1..Len(s)}

\* flatten(a, b) of the source: a.concat(b).
flatten(a, b) == a \o b

RECURSIVE FlattenAll(_, _)
FlattenAll(ss, k) ==
  IF k > Len(ss) THEN <<>> ELSE flatten(ss[k], FlattenAll(ss, k + 1))

(***************************************************************************)
(* Predicates.  A filter is named by its id: "txt" is ext('txt'), "vis" is *)
(* ignoreHiddenFiles().                                                    *)
(***************************************************************************)
ApplyFilter(f, e) ==
  CASE f = "txt" -> ExtOf[e] = "txt"
    [] f = "vis" -> e \notin HiddenEntries

\* _.noop, the value of isMatch after construction: it returns undefined for
\* every entry, which filter() reads as false.
Noop == [fs |-> <<>>, neg |-> FALSE, noop |-> TRUE]

\* compose(filters): the conjunction of a snapshot of the filter list.
compose(fs) == [fs |-> fs, neg |-> FALSE, noop |-> FALSE]

\* negate(isMatch)
negate(m) == [m EXCEPT !.neg = ~m.neg]

\* Calling a matcher on a file entry.
Matches(m, e) ==
  LET conj == \A k \in 1..Len(m.fs) : ApplyFilter(m.fs[k], e)
  IN  IF m.noop THEN FALSE ELSE IF m.neg THEN ~conj ELSE conj

Filter(s, m) == SelectSeqBy(s, {e \in Range(s) : Matches(m, e)}, 1)

(***************************************************************************)
(* Errors.                                                                 *)
(***************************************************************************)
\* The rejection of a listing of a path that cannot be listed.
ListError(p) == [kind |-> "ListError", path |-> p]

\* A TypeError raised by the JavaScript runtime or by the promise library.
TypeError == [kind |-> "TypeError", path |-> ""]

\* getFiles()/getFilesSync() succeed exactly on the directories that exist
\* and can be read.
CanList(p) == p \in Dirs \ Unreadable

(***************************************************************************)
(* The walk of the TypeScript build.                                       *)
(***************************************************************************)
atMaxDepth_off(root, dir, md) ==
  LET depth == DepthOf[dir] - DepthOf[root]
  IN  isDefined(md) /\ depth > md[1] + 1

atMaxDepth(root, dir, md) ==
  LET depth == DepthOf[dir] - DepthOf[root]
  IN  isDefined(md) /\ depth > md[1]

shouldFilterDirectory_nohidden(root, dir, md, ign) ==
  atMaxDepth(root, dir, md)

shouldFilterDirectory(root, dir, md, ign) ==
  atMaxDepth(root, dir, md) \/ (ign /\ dir \in HiddenEntries)

trackPath_always(trackedPaths, root, file, md, ign) ==
  Append(trackedPaths, file)

\* if (!this.shouldFilterDirectory(root, file)) trackedPaths.push(file)
trackPath(trackedPaths, root, file, md, ign) ==
  IF ~shouldFilterDirectory(root, file, md, ign)
  THEN Append(trackedPaths, file) ELSE trackedPaths

\* search(root, path, trackedPaths) while this.sync is true: getFilesSync()
\* returns an array, so the whole subtree is walked within the call.  c holds
\* the fields the walk reads: c.md (maxDepth), c.ign (ignoreDirs), c.m
\* (isMatch).  The outcome has ok = FALSE when a listing threw; files is the
\* returned array, tracked the trackedPaths array after the call, listed the
\* paths on which a listing was called.
RECURSIVE searchSyncWalk(_, _, _, _)
RECURSIVE searchSyncEntries(_, _, _, _, _)
searchSyncEntries(root, es, k, c, acc) ==
  IF k > Len(es) \/ ~acc.ok THEN acc
  ELSE LET file == es[k] IN
       IF file \in Dirs
       THEN LET tr  == trackPath(acc.tracked, root, file, c.md, c.ign)
                sub == searchSyncWalk(root, file, c, tr)
            IN  searchSyncEntries(root, es, k + 1, c,
                  [ok      |-> sub.ok,
                   err     |-> sub.err,
                   files   |-> flatten(acc.files, sub.files),
                   tracked |-> sub.tracked,
                   listed  |-> acc.listed \cup sub.listed])
       ELSE searchSyncEntries(root, es, k + 1, c,
                  [acc EXCEPT !.files = flatten(acc.files, <<file>>)])

searchSyncWalk(root, path, c, trackedPaths) ==
  IF shouldFilterDirectory(root, path, c.md, c.ign)
  THEN [ok |-> TRUE, err |-> TypeError, files |-> <<>>,
        tracked |-> trackedPaths, listed |-> {}]
  ELSE IF ~CanList(path)
  THEN [ok |-> FALSE, err |-> ListError(path), files |-> <<>>,
        tracked |-> trackedPaths, listed |-> {path}]
  ELSE LET r == searchSyncEntries(root, Children[path], 1, c,
                  [ok |-> TRUE, err |-> TypeError, files |-> <<>>,
                   tracked |-> trackedPaths, listed |-> {path}])
       IN  [r EXCEPT !.files = Filter(r.files, c.m)]

(***************************************************************************)
(* The walker of the distribution build (./walker/walk), which receives    *)
(* the directory, the matcher and the search options as arguments.         *)
(***************************************************************************)
\* DirectoryPruner.shouldPrune(root, candidateDir, config)
shouldPrune(root, dir, o) ==
  LET depth == DepthOf[dir] - DepthOf[root]
  IN  (isDefined(o.md) /\ depth > o.md[1]) \/ (o.ign /\ dir \in HiddenEntries)

\* walk(root, currentDir): the directory's own kept files first, then the
\* results of its subdirectories in listing order.  A subdirectory that
\* cannot be listed contributes nothing; the root that cannot be listed fails
\* the walk.
RECURSIVE walkDir(_, _, _, _, _)
RECURSIVE walkSubdirs(_, _, _, _, _, _)
walkSubdirs(root, es, k, m, o, acc) ==
  IF k > Len(es) \/ ~acc.ok THEN acc
  ELSE LET e == es[k] IN
       IF e \in Dirs
       THEN LET tr  == IF o.dirs /\ ~shouldPrune(root, e, o)
                       THEN Append(acc.tracked, e) ELSE acc.tracked
                sub == walkDir(root, e, m, o, tr)
            IN  walkSubdirs(root, es, k + 1, m, o,
                  [ok      |-> sub.ok,
                   err     |-> sub.err,
                   files   |-> acc.files \o sub.files,
                   tracked |-> sub.tracked,
                   listed  |-> acc.listed \cup sub.listed])
       ELSE walkSubdirs(root, es, k + 1, m, o, acc)

walkDir(root, cur, m, o, tr) ==
  IF shouldPrune(root, cur, o)
  THEN [ok |-> TRUE, err |-> TypeError, files |-> <<>>, tracked |-> tr,
        listed |-> {}]
  ELSE IF ~CanList(cur)
  THEN [ok |-> cur # root, err |-> ListError(cur), files |-> <<>>,
        tracked |-> tr, listed |-> {cur}]
  ELSE LET own == Filter(SelectSeqBy(Children[cur], Files, 1), m)
       IN  walkSubdirs(root, Children[cur], 1, m, o,
             [ok |-> TRUE, err |-> TypeError, files |-> own, tracked |-> tr,
              listed |-> {cur}])

\* walker.sync(dir, matcher, opts) and the settled outcome of
\* walker.async(dir, matcher, opts): in directories-only mode the matches are
\* the visited directories kept by the predicate set.
walker(dir, m, o) ==
  LET r == walkDir(dir, dir, m, o, <<>>)
  IN  [r EXCEPT !.files = IF o.dirs THEN Filter(r.tracked, m) ELSE r.files]

(***************************************************************************)
(* State.                                                                  *)
(***************************************************************************)
VARIABLES
  build,            \* "ts" or "dist"
  errListener,      \* an 'error' listener is registered on the instance
  filters,          \* this.filters (ts), the matcher's predicate list (dist)
  negateFilters,    \* this.negateFilters (ts), the matcher's negation (dist)
  maxDepth,         \* this.maxDepth
  ignoreDirs,       \* this.ignoreDirs
  directoriesOnly,  \* this.directoriesOnly
  searchPaths,      \* this.searchPaths
  sync,             \* this.sync (ts)
  isMatch,          \* this.isMatch (ts)
  promise,          \* the promise returned by the find() call being followed
  events,           \* the notifications emitted by that call, in order
  roots,            \* the paths that call got from getSearchPaths()
  walks,            \* per root: the promise of searchAsync
  nodes,            \* per root and directory: the state of search() on it (ts)
  tracked,          \* per root: trackedPaths (ts)
  listed,           \* the <<root index, path>> pairs that call has listed
  began,            \* history: the configuration when that call began
  touched,          \* history: a builder call was made since that call began
  sres,             \* the outcome of the last findSync() call and the
                    \* notifications it emitted, kept until the next builder
                    \* call
  nOps,             \* builder calls made
  nSearches,        \* find() and findSync() calls made
  notAt             \* history: the number of filters added before the first
                    \* not() call, undefined while there was none

cfgVars == <<filters, negateFilters, maxDepth, ignoreDirs, directoriesOnly,
             searchPaths, notAt>>

callVars == <<promise, events, roots, walks, nodes, tracked, listed, began>>

vars == <<build, errListener, filters, negateFilters, maxDepth, ignoreDirs,
          directoriesOnly, searchPaths, sync, isMatch, promise, events, roots,
          walks, nodes, tracked, listed, began, touched, sres, nOps,
          nSearches, notAt>>

NodeIds == Dirs \cup RootNames

NoNode == [st |-> "none", m |-> Noop, res |-> <<>>]

NoSnap == [m |-> Noop, md |-> Undefined, ign |-> FALSE, dirs |-> FALSE]

NoSync ==
  [st |-> "none", list |-> <<>>, err |-> TypeError, listed |-> {},
   events |-> <<>>]

NoPromise == [st |-> "none", undef |-> FALSE, list |-> <<>>, err |-> TypeError]

Event(type, arg) == [type |-> type, arg |-> arg]

\* A find() call is in flight while one of its listings is outstanding.
WalkOpen(i) ==
  /\ walks[i].st = "walking"
  /\ build = "ts" => \E d \in NodeIds : nodes[i][d].st = "listing"

InFlight == \E i \in 1..Len(walks) : WalkOpen(i)

\* The constructor.
Init ==
  /\ build \in {"ts", "dist"}
  /\ errListener = FALSE
  /\ filters = <<>>
  /\ negateFilters = FALSE
  /\ maxDepth = Undefined
  /\ ignoreDirs = FALSE
  /\ directoriesOnly = FALSE
  /\ searchPaths = <<Cwd>>
  /\ sync = FALSE
  /\ isMatch = Noop
  /\ promise = NoPromise
  /\ events = <<>>
  /\ roots = <<>>
  /\ walks = <<>>
  /\ nodes = <<>>
  /\ tracked = <<>>
  /\ listed = {}
  /\ began = NoSnap
  /\ touched = FALSE
  /\ sres = NoSync
  /\ nOps = 0
  /\ nSearches = 0
  /\ notAt = Undefined

(***************************************************************************)
(* Builder calls.                                                          *)
(***************************************************************************)
\* A further find() or findSync() call is within the bounds after ops builder
\* calls and searches search calls.
CanSearch(ops, searches) ==
  searches < MaxSearches /\ ops + searches < MaxCalls

\* A builder call is followed while a search can still observe it.
Builder ==
  /\ nOps < MaxOps
  /\ nOps + nSearches < MaxCalls
  /\ CanSearch(nOps + 1, nSearches) \/ InFlight
  /\ nOps' = nOps + 1
  /\ touched' = TRUE
  /\ sres' = NoSync
  /\ UNCHANGED <<build, errListener, sync, isMatch, callVars, nSearches>>

\* on('error', listener), inherited from EventEmitter.  It is followed in the
\* dist build, where find() swallows the error unless emit('error') throws
\* for want of a listener; the ts build rethrows the error either way.
onError ==
  /\ build = "dist"
  /\ ~errListener
  /\ errListener' = TRUE
  /\ UNCHANGED <<build, cfgVars, sync, isMatch, callVars, touched, sres, nOps,
                 nSearches>>

addFilter(filter) ==
  /\ Builder
  /\ filters' = Append(filters, filter)
  /\ UNCHANGED <<negateFilters, maxDepth, ignoreDirs, directoriesOnly,
                 searchPaths, notAt>>

not_toggle ==
  /\ Builder
  /\ negateFilters' = ~negateFilters
  /\ notAt' = IF isDefined(notAt) THEN notAt ELSE <<Len(filters)>>
  /\ UNCHANGED <<filters, maxDepth, ignoreDirs, directoriesOnly, searchPaths>>

not ==
  /\ Builder
  /\ negateFilters' = TRUE
  /\ notAt' = IF isDefined(notAt) THEN notAt ELSE <<Len(filters)>>
  /\ UNCHANGED <<filters, maxDepth, ignoreDirs, directoriesOnly, searchPaths>>

ignoreHiddenDirectories ==
  /\ Builder
  /\ ignoreDirs' = TRUE
  /\ UNCHANGED <<filters, negateFilters, maxDepth, directoriesOnly,
                 searchPaths, notAt>>

directory ==
  /\ Builder
  /\ directoriesOnly' = TRUE
  /\ UNCHANGED <<filters, negateFilters, maxDepth, ignoreDirs, searchPaths,
                 notAt>>

depth(d) ==
  /\ Builder
  /\ maxDepth' = <<d>>
  /\ UNCHANGED <<filters, negateFilters, ignoreDirs, directoriesOnly,
                 searchPaths, notAt>>

\* path.normalize on the strings the model passes to paths().
normalize(p) == IF p = "./b" THEN "b" ELSE p

\* _.uniq: the first occurrence of every string, in order.
RECURSIVE uniq(_, _)
uniq(s, k) ==
  IF k > Len(s) THEN <<>>
  ELSE IF \E j \in 1..(k - 1) : s[j] = s[k] THEN uniq(s, k + 1)
  ELSE <<s[k]>> \o uniq(s, k + 1)

paths(args) ==
  /\ Builder
  /\ searchPaths' = [k \in 1..Len(uniq(args, 1)) |-> normalize(uniq(args, 1)[k])]
  /\ UNCHANGED <<filters, negateFilters, maxDepth, ignoreDirs, directoriesOnly,
                 notAt>>

(***************************************************************************)
(* Starting a search.                                                      *)
(***************************************************************************)
\* reducePaths(searchPaths) of ./files: no root is dropped and the order of
\* the roots is kept.
reducePaths(sp) == sp

getSearchPaths_outermost(md, sp) ==
  SelectSeqBy(sp, {p \in Range(sp) : \A q \in Range(sp) : q = p \/ q \notin DOMAIN Children
                                      \/ p \notin Range(Children[q])}, 1)

getSearchPaths(md, sp) ==
  IF isDefined(md) THEN sp ELSE reducePaths(sp)

newMatcher_nonegate(fs, neg) ==
  compose(fs)

newMatcher(fs, neg) ==
  IF neg THEN negate(compose(fs)) ELSE compose(fs)

\* Matcher.create() of ./matcher: the snapshot of the predicate list and of
\* the negation flag.
createMatcher(fs, neg) ==
  IF neg THEN negate(compose(fs)) ELSE compose(fs)

\* createSearchOpts(), together with the matcher handed to the walker.
createSearchOpts(m) ==
  [m |-> m, md |-> maxDepth, ign |-> ignoreDirs, dirs |-> directoriesOnly]

\* The outcomes of findSync(); neither build emits a notification in it.
Threw(e, ls) ==
  [st |-> "threw", list |-> <<>>, err |-> e, listed |-> ls, events |-> <<>>]

Returned(l, ls) ==
  [st |-> "returned", list |-> l, err |-> TypeError, listed |-> ls,
   events |-> <<>>]

(***************************************************************************)
(* findSync()                                                              *)
(***************************************************************************)
\* searchSync(dir) of the ts build, for every root in order; c.dirs is
\* this.directoriesOnly.
RECURSIVE tsSearchSyncAll(_, _, _, _)
tsSearchSyncAll(ps, k, c, acc) ==
  IF k > Len(ps) \/ acc.st = "threw" THEN acc
  ELSE LET r == searchSyncWalk(ps[k], ps[k], c, <<>>)
           v == IF c.dirs THEN Filter(r.tracked, c.m) ELSE r.files
       IN  tsSearchSyncAll(ps, k + 1, c,
             IF r.ok
             THEN Returned(Append(acc.list, v),
                           acc.listed \cup {<<k, q>> : q \in r.listed})
             ELSE Threw(r.err, acc.listed \cup {<<k, q>> : q \in r.listed}))

\* searchSync(dir) of the dist build, for every root in order.
RECURSIVE distSearchSyncAll(_, _, _, _)
distSearchSyncAll(ps, k, o, acc) ==
  IF k > Len(ps) \/ acc.st = "threw" THEN acc
  ELSE LET r == walker(ps[k], o.m, o)
       IN  distSearchSyncAll(ps, k + 1, o,
             IF r.ok
             THEN Returned(Append(acc.list, r.files),
                           acc.listed \cup {<<k, q>> : q \in r.listed})
             ELSE Threw(r.err, acc.listed \cup {<<k, q>> : q \in r.listed}))

\* .reduce(flatten) without an initial value: a TypeError on an empty array.
reduceFlatten(all) ==
  IF all.st = "threw" THEN all
  ELSE IF Len(all.list) = 0 THEN Threw(TypeError, all.listed)
  ELSE Returned(FlattenAll(all.list, 1), all.listed)

findSync ==
  /\ CanSearch(nOps, nSearches)
  /\ nSearches' = nSearches + 1
  /\ LET ps == getSearchPaths(maxDepth, searchPaths) IN
     IF build = "ts"
     THEN LET m == newMatcher(filters, negateFilters)
              c == [md |-> maxDepth, ign |-> ignoreDirs, m |-> m,
                    dirs |-> directoriesOnly]
          IN  /\ isMatch' = m
              /\ sync' = (sync \/ Len(ps) > 0)
              /\ sres' = reduceFlatten(tsSearchSyncAll(ps, 1, c, Returned(<<>>, {})))
     ELSE LET o == createSearchOpts(createMatcher(filters, negateFilters))
          IN  /\ sres' = reduceFlatten(distSearchSyncAll(ps, 1, o, Returned(<<>>, {})))
              /\ UNCHANGED <<isMatch, sync>>
  /\ UNCHANGED <<build, errListener, cfgVars, callVars, touched, nOps>>

(***************************************************************************)
(* find() of the ts build.                                                 *)
(***************************************************************************)
Walk(st, value, err, snap) ==
  [st |-> st, value |-> value, err |-> err, snap |-> snap]

NoNodes == [d \in NodeIds |-> NoNode]

\* The first call search(root, root, trackedPaths) made by searchAsync(dir),
\* for every root in order (Promise.map).  c holds the fields read: c.md,
\* c.ign, c.m, c.sync.  search() returns an array, not a promise, when the
\* root is pruned or this.sync is set, and pending.then then throws a
\* TypeError inside the mapper.  Whether the promise library still calls the
\* mapper for the roots after one that threw is left open (cont).
RECURSIVE tsStartRoots(_, _, _, _, _)
tsStartRoots(ps, k, c, cont, acc) ==
  IF k > Len(ps) THEN acc
  ELSE LET p == ps[k] IN
    tsStartRoots(ps, k + 1, c, cont,
      IF acc.thrown /\ ~cont
      THEN [acc EXCEPT !.walks = Append(@, Walk("unstarted", <<>>, TypeError, NoSnap)),
                       !.nodes = Append(@, NoNodes),
                       !.tracked = Append(@, <<>>)]
      ELSE IF shouldFilterDirectory(p, p, c.md, c.ign)
      THEN [acc EXCEPT !.walks = Append(@, Walk("rejected", <<>>, TypeError, NoSnap)),
                       !.nodes = Append(@, NoNodes),
                       !.tracked = Append(@, <<>>),
                       !.thrown = TRUE,
                       !.err = IF acc.thrown THEN @ ELSE TypeError]
      ELSE IF c.sync
      THEN LET r == searchSyncWalk(p, p, c, <<>>)
               e == IF r.ok THEN TypeError ELSE r.err
           IN  [acc EXCEPT !.walks = Append(@, Walk("rejected", <<>>, e, NoSnap)),
                           !.nodes = Append(@, NoNodes),
                           !.tracked = Append(@, r.tracked),
                           !.listed = @ \cup {<<k, q>> : q \in r.listed},
                           !.thrown = TRUE,
                           !.err = IF acc.thrown THEN @ ELSE e]
      ELSE [acc EXCEPT !.walks = Append(@, Walk("walking", <<>>, TypeError, NoSnap)),
                       !.nodes = Append(@, [NoNodes EXCEPT ![p] =
                                     [st |-> "listing", m |-> c.m, res |-> <<>>]]),
                       !.tracked = Append(@, <<>>),
                       !.listed = @ \cup {<<k, p>>}])

Rejected(e) == [st |-> "rejected", undef |-> FALSE, list |-> <<>>, err |-> e]

Fulfilled(l) == [st |-> "fulfilled", undef |-> FALSE, list |-> l, err |-> TypeError]

FulfilledUndefined ==
  [st |-> "fulfilled", undef |-> TRUE, list |-> <<>>, err |-> TypeError]

Pending == [st |-> "pending", undef |-> FALSE, list |-> <<>>, err |-> TypeError]

\* .catch(e => { this.emit('error', e); throw e; }).finally(() => this.emit('end'))
tsCatchFinally_endfirst(ev, e) ==
  [promise |-> Rejected(e),
   events  |-> ev \o <<Event("end", ""), Event("error", e.kind)>>]

tsCatchFinally(ev, e) ==
  [promise |-> Rejected(e),
   events  |-> ev \o <<Event("error", e.kind), Event("end", "")>>]

tsFind ==
  /\ build = "ts"
  /\ CanSearch(nOps, nSearches)
  /\ ~InFlight
  /\ nSearches' = nSearches + 1
  /\ touched' = FALSE
  /\ isMatch' = newMatcher(filters, negateFilters)
  /\ \E cont \in BOOLEAN :
       LET ps == getSearchPaths(maxDepth, searchPaths)
           c  == [md |-> maxDepth, ign |-> ignoreDirs, m |-> isMatch',
                  sync |-> sync]
           st == tsStartRoots(ps, 1, c, cont,
                   [walks |-> <<>>, nodes |-> <<>>, tracked |-> <<>>,
                    listed |-> {}, thrown |-> FALSE, err |-> TypeError])
           out == IF Len(ps) = 0 THEN tsCatchFinally(<<>>, TypeError)
                  ELSE IF st.thrown THEN tsCatchFinally(<<>>, st.err)
                  ELSE [promise |-> Pending, events |-> <<>>]
       IN  /\ roots' = ps
           /\ began' = createSearchOpts(isMatch')
           /\ walks' = st.walks
           /\ nodes' = st.nodes
           /\ tracked' = st.tracked
           /\ listed' = st.listed
           /\ promise' = out.promise
           /\ events' = out.events
  /\ UNCHANGED <<build, errListener, cfgVars, sync, sres, nOps>>

(***************************************************************************)
(* The completion of one listing of the ts build: the callbacks of         *)
(* search(), then of searchAsync() and of find() when they become runnable.*)
(***************************************************************************)
\* The map callback of search(), on every entry of the listing in order.
\* acc.nd is the node table of the root, acc.tr its trackedPaths.
RECURSIVE tsMapEntries(_, _, _, _, _)
tsMapEntries(root, es, k, c, acc) ==
  IF k > Len(es) \/ ~acc.ok THEN acc
  ELSE LET file == es[k] IN
    tsMapEntries(root, es, k + 1, c,
      IF file \notin Dirs THEN acc
      ELSE LET tr == trackPath(acc.tr, root, file, c.md, c.ign)
           IN  IF shouldFilterDirectory(root, file, c.md, c.ign)
               THEN [acc EXCEPT !.nd[file] = [st |-> "pruned", m |-> Noop, res |-> <<>>]]
               ELSE IF c.sync
               THEN LET r == searchSyncWalk(root, file, c, tr)
                    IN  [ok |-> r.ok,
                         err |-> r.err,
                         nd |-> [acc.nd EXCEPT ![file] =
                                   [st |-> "leaf", m |-> c.m, res |-> r.files]],
                         tr |-> r.tracked,
                         ls |-> acc.ls \cup r.listed]
               ELSE [acc EXCEPT !.nd[file] = [st |-> "listing", m |-> c.m, res |-> <<>>],
                                !.tr = tr,
                                !.ls = @ \cup {file}])

\* The array a settled search(root, d, trackedPaths) resolves to:
\* .reduce(flatten, []).filter(isMatch), with the isMatch that was read when
\* search() was called on d.
RECURSIVE tsResolved(_, _)
RECURSIVE tsConcat(_, _, _)
tsConcat_shallow(nd, es, k) ==
  SelectSeqBy(es, Files, k)

tsConcat(nd, es, k) ==
  IF k > Len(es) THEN <<>>
  ELSE flatten(IF es[k] \in Dirs THEN tsResolved(nd, es[k]) ELSE <<es[k]>>,
               tsConcat(nd, es, k + 1))

tsResolved(nd, d) ==
  IF nd[d].st \in {"leaf", "pruned"} THEN nd[d].res
  ELSE Filter(tsConcat(nd, Children[d], 1), nd[d].m)

Matched(files) == [k \in 1..Len(files) |-> Event("match", files[k])]

searchAsyncThen_files(files, tr, dirs, m) ==
  [value |-> files, events |-> Matched(files)]

\* The callback of pending.then in searchAsync.
searchAsyncThen(files, tr, dirs, m) ==
  [value  |-> IF dirs THEN Filter(tr, m) ELSE files,
   events |-> IF dirs THEN <<>> ELSE Matched(files)]

Values(ws) == [k \in 1..Len(ws) |-> ws[k].value]

\* Promise.all(searches).reduce(flatten).map(toFilename), all walks resolved.
tsReturn_reversed(ws) ==
  Fulfilled(FlattenAll([k \in 1..Len(ws) |-> ws[Len(ws) + 1 - k].value], 1))

tsReturn(ws) == Fulfilled(FlattenAll(Values(ws), 1))

AllResolved(ws) == \A k \in 1..Len(ws) : ws[k].st = "resolved"

\* The listings that a rejected walk still has outstanding are not followed:
\* no callback of the walk observes them.
tsListingCompletes(i, d) ==
  /\ build = "ts"
  /\ walks[i].st = "walking"
  /\ nodes[i][d].st = "listing"
  /\ LET c == [md |-> maxDepth, ign |-> ignoreDirs, m |-> isMatch, sync |-> sync]
         r == IF CanList(d)
              THEN tsMapEntries(roots[i], Children[d], 1, c,
                     [ok |-> TRUE, err |-> TypeError,
                      nd |-> [nodes[i] EXCEPT ![d].st = "listed"],
                      tr |-> tracked[i], ls |-> {}])
              ELSE [ok |-> FALSE, err |-> ListError(d), nd |-> nodes[i],
                    tr |-> tracked[i], ls |-> {}]
         done == r.ok /\ \A q \in NodeIds : r.nd[q].st # "listing"
         th == searchAsyncThen(tsResolved(r.nd, roots[i]), r.tr,
                               directoriesOnly, isMatch)
         ws == [walks EXCEPT ![i] =
                  IF ~r.ok THEN Walk("rejected", <<>>, r.err, NoSnap)
                  ELSE IF done THEN Walk("resolved", th.value, TypeError, NoSnap)
                  ELSE @]
     IN  /\ nodes' = [nodes EXCEPT ![i] = r.nd]
         /\ tracked' = [tracked EXCEPT ![i] = r.tr]
         /\ listed' = listed \cup {<<i, q>> : q \in r.ls}
         /\ walks' = ws
         /\ IF ~r.ok
            THEN IF promise.st = "pending"
                 THEN /\ promise' = tsCatchFinally(events, r.err).promise
                      /\ events' = tsCatchFinally(events, r.err).events
                 ELSE UNCHANGED <<promise, events>>
            ELSE IF ~done
            THEN UNCHANGED <<promise, events>>
            ELSE IF promise.st = "pending" /\ AllResolved(ws)
            THEN /\ promise' = tsReturn(ws)
                 /\ events' = events \o th.events \o <<Event("end", "")>>
            ELSE /\ events' = events \o th.events
                 /\ UNCHANGED promise
  /\ UNCHANGED <<build, errListener, cfgVars, sync, isMatch, roots, began,
                 touched, sres, nOps, nSearches>>

(***************************************************************************)
(* find() of the dist build.                                               *)
(***************************************************************************)
\* catch (e) { this.emit('error', e); } finally { this.emit('end'); }
\* emit('error', e) throws e when no 'error' listener is registered.
distCatchFinally(ev, e, listener) ==
  [promise |-> IF listener THEN FulfilledUndefined ELSE Rejected(e),
   events  |-> ev \o <<Event("error", e.kind), Event("end", "")>>]

\* results.reduce(flatten).map(file => { this.emit('match', file); ... }),
\* then the finally block.
distReturn(ev, values) ==
  [promise |-> Fulfilled(FlattenAll(values, 1)),
   events  |-> ev \o Matched(FlattenAll(values, 1)) \o <<Event("end", "")>>]

distFind ==
  /\ build = "dist"
  /\ CanSearch(nOps, nSearches)
  /\ ~InFlight
  /\ nSearches' = nSearches + 1
  /\ touched' = FALSE
  /\ LET ps == getSearchPaths(maxDepth, searchPaths)
         o  == createSearchOpts(createMatcher(filters, negateFilters))
         out == IF Len(ps) = 0
                THEN distCatchFinally(<<>>, TypeError, errListener)
                ELSE [promise |-> Pending, events |-> <<>>]
     IN  /\ roots' = ps
         /\ began' = o
         /\ walks' = [k \in 1..Len(ps) |-> Walk("walking", <<>>, TypeError, o)]
         /\ nodes' = [k \in 1..Len(ps) |-> NoNodes]
         /\ tracked' = [k \in 1..Len(ps) |-> <<>>]
         /\ listed' = {}
         /\ promise' = out.promise
         /\ events' = out.events
  /\ UNCHANGED <<build, errListener, cfgVars, sync, isMatch, sres, nOps>>

\* walker.async(dir, matcher, opts) of root i settles.
distWalkSettles(i) ==
  /\ build = "dist"
  /\ walks[i].st = "walking"
  /\ LET r  == walker(roots[i], walks[i].snap.m, walks[i].snap)
         ws == [walks EXCEPT ![i] =
                  IF r.ok THEN Walk("resolved", r.files, TypeError, @.snap)
                  ELSE Walk("rejected", <<>>, r.err, @.snap)]
         out == IF promise.st # "pending"
                THEN [promise |-> promise, events |-> events]
                ELSE IF ~r.ok
                THEN distCatchFinally(events, r.err, errListener)
                ELSE IF AllResolved(ws)
                THEN distReturn(events, Values(ws))
                ELSE [promise |-> promise, events |-> events]
     IN  /\ walks' = ws
         /\ listed' = listed \cup {<<i, q>> : q \in r.listed}
         /\ tracked' = [tracked EXCEPT ![i] = r.tracked]
         /\ promise' = out.promise
         /\ events' = out.events
  /\ UNCHANGED <<build, errListener, cfgVars, sync, isMatch, roots, nodes,
                 began, touched, sres, nOps, nSearches>>

(***************************************************************************)
(* FileHound.any                                                           *)
(***************************************************************************)
\* The element [].concat(undefined) appends.
UndefinedElement == "undefined"

\* flatten(acc, value) on the fulfilment value of a find() promise.
flattenValue(acc, p) ==
  IF p.undef THEN Append(acc, UndefinedElement) ELSE flatten(acc, p.list)

RECURSIVE reduceValues(_, _, _)
reduceValues(ps, k, acc) ==
  IF k > Len(ps) THEN acc
  ELSE reduceValues(ps, k + 1, flattenValue(acc, ps[k]))

\* The promise of FileHound.any over the find() promises ps: Promise.all of
\* them, then reduce(flatten, []).  The dist build makes the find() calls
\* itself, one per instance it is given; the ts build is given the promises.
any(ps) ==
  IF \E k \in 1..Len(ps) : ps[k].st = "rejected"
  THEN Rejected(ps[CHOOSE k \in 1..Len(ps) : ps[k].st = "rejected"].err)
  ELSE IF \E k \in 1..Len(ps) : ps[k].st # "fulfilled" THEN Pending
  ELSE Fulfilled(reduceValues(ps, 1, <<>>))

(***************************************************************************)
(* The specification.                                                      *)
(***************************************************************************)
Next ==
  \/ onError
  \/ \E f \in FilterIds : addFilter(f)
  \/ not
  \/ ignoreHiddenDirectories
  \/ directory
  \/ \E d \in DepthArgs : depth(d)
  \/ \E args \in PathArgs : paths(args)
  \/ findSync
  \/ tsFind
  \/ \E i \in 1..Len(walks) : \E d \in NodeIds : tsListingCompletes(i, d)
  \/ distFind
  \/ \E i \in 1..Len(walks) : distWalkSettles(i)

Spec == Init /\ [][Next]_vars

(***************************************************************************)
(* Vocabulary of the properties.                                           *)
(***************************************************************************)
Count(s, x) == Cardinality({k \in 1..Len(s) : s[k] = x})

TypesOf(ev) == [k \in 1..Len(ev) |-> ev[k].type]

\* The payloads of the 'match' notifications, in order of emission.
RECURSIVE MatchArgs(_, _)
MatchArgs(ev, k) ==
  IF k > Len(ev) THEN <<>>
  ELSE IF ev[k].type = "match" THEN <<ev[k].arg>> \o MatchArgs(ev, k + 1)
  ELSE MatchArgs(ev, k + 1)

Settled == promise.st \in {"fulfilled", "rejected"}

\* Entry e lies in the subtree of root r.
RECURSIVE Under(_, _)
Under(e, r) ==
  \/ e = r
  \/ e \in DOMAIN ParentOf /\ Under(ParentOf[e], r)

\* find() fulfilled with a result list.
Succeeded == promise.st = "fulfilled" /\ ~promise.undef

\* The search of the followed find() call failed: it had no root to reduce
\* over, or the walk of a root rejected.
SearchFailed ==
  Len(roots) = 0 \/ \E i \in 1..Len(walks) : walks[i].st = "rejected"

\* C1: for every find() call the 'end' notification is emitted exactly once,
\* on success and on failure, and no 'match' or 'error' notification of the
\* call is emitted after it.
C1_EndOnceAndLast ==
  /\ Count(TypesOf(events), "end") <= 1
  /\ Settled => Count(TypesOf(events), "end") = 1
  /\ \A k \in 1..Len(events) : events[k].type = "end" => k = Len(events)

\* C2: if the walk of any root rejects, the promise returned by find() is
\* rejected with that error and never fulfils, with or without an 'error'
\* listener.
C2_WalkRejectionRejectsFind ==
  (\E i \in 1..Len(walks) : walks[i].st = "rejected")
    => /\ promise.st = "rejected"
       /\ \E i \in 1..Len(walks) :
            walks[i].st = "rejected" /\ promise.err = walks[i].err

\* C3: during one find() call 'error' is emitted at most once, only when the
\* search fails, and before the 'end' notification of the call.
C3_ErrorOnceBeforeEnd ==
  /\ Count(TypesOf(events), "error") <= 1
  /\ Count(TypesOf(events), "error") = 1 => SearchFailed
  /\ \A j, k \in 1..Len(events) :
       events[j].type = "error" /\ events[k].type = "end" => j < k

C3_Witness ==
  /\ Len(roots) = 2
  /\ promise.st = "rejected"
  /\ promise.err = ListError("x")
  /\ \E j, k \in 1..Len(events) :
       j < k /\ events[j].type = "error" /\ events[k].type = "end"

\* C4: when find() succeeds, the 'match' notifications emitted during the call
\* are, in order, exactly the entries of the returned list, all emitted by the
\* time the result is delivered; in every mode and for every completion order
\* of the roots.
C4_MatchesAreTheResult ==
  Succeeded => MatchArgs(events, 1) = promise.list

\* C5: the list find() returns is the concatenation of the per-root results
\* in the order the roots were declared, whatever the order in which the
\* walks completed.
C5_RootOrder ==
  Succeeded =>
    /\ promise.list = FlattenAll(Values(walks), 1)
    /\ \A i \in 1..Len(walks) : \A e \in Range(walks[i].value) :
         Under(e, roots[i])
    /\ ~touched => roots = searchPaths

\* Root b completed before root a, and a's entries still come first.
C5_Witness ==
  /\ Succeeded
  /\ roots = <<"a", "b">>
  /\ ~touched
  /\ Len(MatchArgs(events, 1)) > 1
  /\ MatchArgs(events, 1)[1] = "b/m.txt"
  /\ promise.list[1] # "b/m.txt"
  /\ promise.list[Len(promise.list)] = "b/m.txt"

\* The pruner's verdict on a directory under the configuration the followed
\* find() call began with.
PrunedAtBegin(root, dir) ==
  \/ isDefined(began.md) /\ DepthOf[dir] - DepthOf[root] > began.md[1]
  \/ began.ign /\ dir \in HiddenEntries

\* C6: once a find() has begun, adding a filter, calling not() or starting
\* another search on the instance does not change the predicate the search
\* applies: every directory level is filtered with the matcher of the moment
\* the search began.
C6_MatcherFixedAtBegin ==
  \A i \in 1..Len(nodes) : \A d \in NodeIds :
    nodes[i][d].st \in {"listing", "listed", "leaf"} => nodes[i][d].m = began.m

\* C7: maximum depth, hidden-directory exclusion, directories-only flag and
\* root list are fixed when find() begins: builder calls made while the search
\* is in flight change neither the directories it prunes nor the population
\* it returns.
C7_ConfigFixedAtBegin ==
  /\ \A x \in listed : ~PrunedAtBegin(roots[x[1]], x[2])
  /\ \A i \in 1..Len(nodes) : \A d \in Dirs :
       nodes[i][d].st = "listed" =>
         \A q \in Range(Children[d]) \cap Dirs :
           ~PrunedAtBegin(roots[i], q) => <<i, q>> \in listed
  /\ Succeeded => Range(promise.list) \subseteq (IF began.dirs THEN Dirs ELSE Files)

\* The configuration a fresh instance has, but for its roots.
PlainConfig ==
  /\ filters = <<>>
  /\ ~negateFilters
  /\ ~isDefined(maxDepth)
  /\ ~ignoreDirs
  /\ ~directoriesOnly

\* list holds every non-directory entry of the subtree of every root of rs,
\* once per root that contains it, and nothing else.
FullListing(list, rs) ==
  /\ Range(list) \subseteq Files
  /\ \A f \in Files :
       Count(list, f) = Cardinality({i \in 1..Len(rs) : Under(f, rs[i])})

\* findSync() returned a result under the present configuration.
SyncReturned == sres.st = "returned"

\* C8, as stated: with no filter added and no depth set, find() and
\* findSync() return exactly the non-directory entries of the whole subtree of
\* every root, each once per root, and no directory.
C8_AsStated ==
  (filters = <<>> /\ ~isDefined(maxDepth)) =>
    /\ Succeeded => FullListing(promise.list, roots)
    /\ SyncReturned => FullListing(sres.list, searchPaths)

\* C8, amended: with no filter added, not() not called, no depth set,
\* hidden-directory exclusion off and directories-only mode off, a find() or
\* findSync() that returns a result returns exactly the non-directory entries
\* of the whole subtree of every root it walked, each once per such root, and
\* no directory.
C8_FullListing ==
  PlainConfig =>
    /\ Succeeded => FullListing(promise.list, roots)
    /\ SyncReturned => FullListing(sres.list, searchPaths)

C8_Witness ==
  /\ build = "ts"
  /\ PlainConfig
  /\ Succeeded
  /\ SyncReturned
  /\ roots = <<"a", "b">>
  /\ searchPaths = roots
  /\ nodes[1]["a/s/t"].st = "listed"
  /\ sres.list = promise.list
  /\ Len(promise.list) =
       Cardinality({f \in Files : Under(f, "a") \/ Under(f, "b")})

\* C9: with maxDepth = d, a directory is descended into only if its depth
\* relative to the root is at most d, so every entry of the result was listed
\* in a directory at relative depth at most d; with d = 0 only direct
\* children of the roots are returned.
C9_DepthLimit ==
  isDefined(maxDepth) =>
    /\ ~touched =>
         /\ \A x \in listed :
              DepthOf[x[2]] - DepthOf[roots[x[1]]] <= maxDepth[1]
         /\ Succeeded =>
              \A i \in 1..Len(walks) : \A e \in Range(walks[i].value) :
                /\ Under(e, roots[i])
                /\ DepthOf[e] - DepthOf[roots[i]] - 1 <= maxDepth[1]
    /\ SyncReturned =>
         /\ \A x \in sres.listed :
              DepthOf[x[2]] - DepthOf[searchPaths[x[1]]] <= maxDepth[1]
         /\ \A e \in Range(sres.list) : \E i \in 1..Len(searchPaths) :
              /\ Under(e, searchPaths[i])
              /\ DepthOf[e] - DepthOf[searchPaths[i]] - 1 <= maxDepth[1]

\* With maxDepth = 1 the walk of a enters a/s and does not enter a/s/t.
C9_Witness ==
  /\ build = "ts"
  /\ maxDepth = <<1>>
  /\ ~touched /\ Succeeded
  /\ roots = <<"a">>
  /\ nodes[1]["a/s"].st = "listed"
  /\ <<1, "a/s/t">> \notin listed
  /\ promise.list = <<"a/s/g.log", "a/f.txt", "a/.h/k.txt">>
  /\ SyncReturned
  /\ sres.list = promise.list

\* The pruner's verdict on a directory under the present configuration.
PrunedNow(root, dir) ==
  \/ isDefined(maxDepth) /\ DepthOf[dir] - DepthOf[root] > maxDepth[1]
  \/ ignoreDirs /\ dir \in HiddenEntries

\* Entry e of the walk of root is a pruned directory or lies below one.
BehindPruned(root, e) ==
  \E d \in Dirs : Under(e, d) /\ Under(d, root) /\ PrunedNow(root, d)

\* C10: a directory the pruner rejects is never listed, nothing below it is
\* evaluated or returned, and in directories-only mode it is not a result.
C10_PrunedNeverListed ==
  /\ ~touched =>
       /\ \A x \in listed : ~PrunedNow(roots[x[1]], x[2])
       /\ \A i \in 1..Len(tracked) : \A e \in Range(tracked[i]) :
            ~BehindPruned(roots[i], e)
       /\ Succeeded =>
            \A i \in 1..Len(walks) : \A e \in Range(walks[i].value) :
              Under(e, roots[i]) /\ ~BehindPruned(roots[i], e)
  /\ SyncReturned =>
       /\ \A x \in sres.listed : ~PrunedNow(searchPaths[x[1]], x[2])
       /\ \A e \in Range(sres.list) : \E i \in 1..Len(searchPaths) :
            Under(e, searchPaths[i]) /\ ~BehindPruned(searchPaths[i], e)

\* Directories-only search of a with hidden directories excluded: a/.h is
\* neither listed nor returned.
C10_Witness ==
  /\ build = "ts"
  /\ ignoreDirs /\ directoriesOnly
  /\ ~touched /\ Succeeded
  /\ roots = <<"a">>
  /\ <<1, "a/.h">> \notin listed
  /\ nodes[1]["a/s/t"].st = "listed"
  /\ Range(promise.list) = {"a/s", "a/s/t"}

\* The expression of the present configuration on an entry: the conjunction
\* of all added predicates (true when none was added), exclusive-or the
\* negation flag.
Accepts(e) ==
  (\A k \in 1..Len(filters) : ApplyFilter(filters[k], e)) # negateFilters

\* File f is reachable from root without crossing a pruned directory and
\* satisfies the expression.
Wanted(root, f) ==
  Under(f, root) /\ ~BehindPruned(root, f) /\ Accepts(f)

\* list holds, for every root of rs, exactly the wanted files of that root.
WantedFiles(list, rs) ==
  /\ Range(list) \subseteq Files
  /\ \A f \in Files :
       Count(list, f) = Cardinality({i \in 1..Len(rs) : Wanted(rs[i], f)})

\* The matcher a search begun under the present configuration uses.
MatcherIsExpression ==
  /\ (~touched /\ promise.st # "none") =>
       \A e \in Entries : Matches(began.m, e) = Accepts(e)
  /\ (build = "ts" /\ SyncReturned) =>
       \A e \in Entries : Matches(isMatch, e) = Accepts(e)

\* C11, as stated: the matcher of a search accepts an entry exactly when
\* (AND of all added predicates) XOR negateAll holds, and in every mode a
\* file is in the result iff it is reachable without pruning and satisfies
\* that expression.
C11_AsStated ==
  /\ MatcherIsExpression
  /\ (~touched /\ Succeeded) => WantedFiles(promise.list, roots)
  /\ SyncReturned => WantedFiles(sres.list, searchPaths)

\* C11, amended: the matcher of a search accepts an entry exactly when (AND
\* of all added predicates) XOR negateAll holds, and outside directories-only
\* mode a file is in the result iff it is reachable without pruning and
\* satisfies that expression.
C11_MatcherExpression ==
  /\ MatcherIsExpression
  /\ ~directoriesOnly =>
       /\ (~touched /\ Succeeded) => WantedFiles(promise.list, roots)
       /\ SyncReturned => WantedFiles(sres.list, searchPaths)

\* ext('txt') negated: the search of a returns its one file that is not .txt.
C11_Witness ==
  /\ build = "ts"
  /\ filters = <<"txt">> /\ negateFilters /\ ~directoriesOnly
  /\ ~touched /\ Succeeded
  /\ roots = <<"a">>
  /\ nodes[1]["a/s"].st = "listed"
  /\ promise.list = <<"a/s/g.log">>

\* Directory d is a visited directory of the walk of root that satisfies the
\* predicate set: it lies below the root, is not a pruned directory or
\* behind one, and the expression accepts it.
WantedDir(root, d) ==
  d # root /\ Under(d, root) /\ ~BehindPruned(root, d) /\ Accepts(d)

\* list holds, for every root of rs, exactly the wanted directories of that
\* root and no other entry.
WantedDirs(list, rs) ==
  /\ Range(list) \subseteq Dirs
  /\ \A d \in Dirs :
       Count(list, d) = Cardinality({i \in 1..Len(rs) : WantedDir(rs[i], d)})

\* C12: in directories-only mode the result of find() and of findSync() holds
\* exactly the visited directories that satisfy the predicate set, each once
\* per root, and never a non-directory entry.
C12_DirectoriesOnly ==
  directoriesOnly =>
    /\ (~touched /\ Succeeded) => WantedDirs(promise.list, roots)
    /\ SyncReturned => WantedDirs(sres.list, searchPaths)

\* Directories-only search of a with ignoreHiddenFiles() as the predicate:
\* of the three directories visited, the two that are not hidden are returned.
C12_Witness ==
  /\ build = "ts"
  /\ directoriesOnly /\ filters = <<"vis">> /\ ~ignoreDirs
  /\ ~touched /\ Succeeded
  /\ roots = <<"a">>
  /\ nodes[1]["a/s/t"].st = "listed"
  /\ Range(tracked[1]) = {"a/s", "a/s/t", "a/.h"}
  /\ Len(promise.list) = 2
  /\ Range(promise.list) = {"a/s", "a/s/t"}

\* C13: the root list that paths() stores has no two entries equal after
\* normalization: supplied paths that normalize to the same string yield one
\* root.
C13_RootsDistinctAfterNormalize ==
  \A j, k \in 1..Len(searchPaths) :
    j # k => normalize(searchPaths[j]) # normalize(searchPaths[k])

\* The last findSync() call failed for lack of roots: it threw without having
\* listed anything, over an empty root list.
SyncFailedForLackOfRoots ==
  sres.st = "threw" /\ Len(searchPaths) = 0

\* C14: after any sequence of builder calls the instance has at least one
\* root, so no find() or findSync() call runs over an empty root list or
\* fails for lack of roots.
C14_AtLeastOneRoot ==
  /\ Len(searchPaths) >= 1
  /\ promise.st # "none" => Len(roots) >= 1
  /\ ~SyncFailedForLackOfRoots

\* Two roots of rs overlap: one lies in the subtree of the other.
Overlap(rs) ==
  \E i, j \in 1..Len(rs) : rs[i] # rs[j] /\ Under(rs[j], rs[i])

\* Entry e is a match of the walk of root under the present configuration.
MatchOf(root, e) ==
  IF directoriesOnly THEN e \in Dirs /\ WantedDir(root, e)
  ELSE e \in Files /\ Wanted(root, e)

\* list holds the matches of every root of rs in full, and every root of rs
\* was listed (ls).
EveryRootInFull(list, rs, ls) ==
  /\ \A i \in 1..Len(rs) : <<i, rs[i]>> \in ls
  /\ \A e \in Entries :
       Count(list, e) = Cardinality({i \in 1..Len(rs) : MatchOf(rs[i], e)})

\* C15, as stated: no root is dropped when two roots overlap, and every match
\* under the inner root appears twice in the result, with or without a
\* maximum depth.
C15_AsStated ==
  (~touched /\ Succeeded /\ Overlap(searchPaths)) =>
    /\ roots = searchPaths
    /\ \A i, j \in 1..Len(roots) : \A e \in Entries :
         (roots[i] # roots[j] /\ Under(roots[j], roots[i])
            /\ MatchOf(roots[j], e))
           => Count(promise.list, e) = 2

\* C15, amended: no root is dropped when two roots overlap, with or without
\* a maximum depth; both are walked and the result holds each root's matches
\* in full, so a match that both walks reach appears twice.
C15_NoCrossRootDedup ==
  /\ (~touched /\ promise.st # "none" /\ Overlap(searchPaths)) =>
       roots = searchPaths
  /\ (~touched /\ Succeeded /\ Overlap(searchPaths)) =>
       /\ EveryRootInFull(promise.list, roots, listed)
       /\ \A i, j \in 1..Len(roots) : \A e \in Entries :
            (i # j /\ MatchOf(roots[i], e) /\ MatchOf(roots[j], e))
              => Count(promise.list, e) = 2
  /\ (SyncReturned /\ Overlap(searchPaths)) =>
       /\ EveryRootInFull(sres.list, searchPaths, sres.listed)
       /\ \A i, j \in 1..Len(searchPaths) : \A e \in Entries :
            (i # j /\ MatchOf(searchPaths[i], e) /\ MatchOf(searchPaths[j], e))
              => Count(sres.list, e) = 2

\* Roots a and a/s with no depth limit: the two files below a/s are returned
\* twice, the other files of a once.
C15_Witness ==
  /\ build = "ts"
  /\ ~touched /\ Succeeded
  /\ searchPaths = <<"a", "a/s">> /\ roots = searchPaths
  /\ ~isDefined(maxDepth) /\ ~directoriesOnly
  /\ nodes[1]["a/s/t"].st = "listed" /\ nodes[2]["a/s/t"].st = "listed"
  /\ Count(promise.list, "a/s/g.log") = 2
  /\ Count(promise.list, "a/s/t/z.txt") = 2
  /\ Count(promise.list, "a/f.txt") = 1

\* C16: every findSync() call emits the 'end' notification exactly once, as
\* the last of its notifications.
C16_FindSyncEmitsEnd ==
  sres.st # "none" =>
    /\ Count(TypesOf(sres.events), "end") = 1
    /\ sres.events[Len(sres.events)].type = "end"

\* C17: under one configuration find() and findSync() produce the same
\* ordered result list, and each fails when the other fails.
C17_FindEqualsFindSync ==
  (~touched /\ Settled /\ sres.st # "none") =>
    /\ promise.st = "rejected" <=> sres.st = "threw"
    /\ Succeeded <=> SyncReturned
    /\ Succeeded => promise.list = sres.list

\* A step in which a find() call begins, and a step in which findSync() is
\* called again under the configuration of the findSync() call before it.
FindBegins == nSearches' = nSearches + 1 /\ callVars' # callVars

SyncAgain == nSearches' = nSearches + 1 /\ callVars' = callVars /\ sres.st # "none"

\* What find() does on a fresh instance of the present configuration that
\* has roots, none of them pruned: it starts the walk of every root and
\* returns a pending promise.
StartsAsOnFresh ==
  LET ps == getSearchPaths(maxDepth, searchPaths)
  IN  (/\ Len(ps) > 0
       /\ \A k \in 1..Len(ps) :
            ~shouldFilterDirectory(ps[k], ps[k], maxDepth, ignoreDirs))
        => /\ promise'.st = "pending"
           /\ \A k \in 1..Len(ps) : walks'[k].st = "walking"

\* C18: a search run again on the same instance does what it did before,
\* whatever find() and findSync() calls came earlier: findSync() called again
\* returns the same list, and a find() call begins as it does on a fresh,
\* identically configured instance.
C18_SearchAgainSameResult ==
  [][/\ SyncAgain => sres' = sres
     /\ FindBegins => StartsAsOnFresh]_vars

\* C19: the failure of the listing of a directory below the root does not
\* fail the search of the root: only a listing error of the root itself
\* fails a walk or findSync(), and a walk that met an unreadable
\* subdirectory still returns the matches of the sibling subtrees.
C19_SubdirFailureRecoverable ==
  /\ \A i \in 1..Len(walks) :
       (walks[i].st = "rejected" /\ walks[i].err.kind = "ListError")
         => walks[i].err.path = roots[i]
  /\ (sres.st = "threw" /\ sres.err.kind = "ListError")
       => sres.err.path \in Range(searchPaths)
  /\ \A i \in 1..Len(walks) :
       (/\ walks[i].st = "resolved"
        /\ ~touched /\ ~directoriesOnly
        /\ \E u \in Unreadable : <<i, u>> \in listed)
         => \A f \in Files : Wanted(roots[i], f) => f \in Range(walks[i].value)

\* C20: when the promise of FileHound.any fulfils, its value is the
\* concatenation of the match lists of the searches it was given, so every
\* element of it is a matched entry of one of them and none is a placeholder
\* for a search that failed.  Stated for FileHound.any of the find() call
\* that is followed.
C20_AnyValueIsMatches ==
  any(<<promise>>).st = "fulfilled" =>
    /\ Succeeded
    /\ any(<<promise>>).list = promise.list
    /\ Range(any(<<promise>>).list) \subseteq Entries

\* The order the walk of directory d under root is to return its matches in:
\* the accepted files of d itself, in listing order, then the results of the
\* subdirectories of d that are not pruned, in listing order, recursively.
RECURSIVE OwnFilesFirst(_, _)
RECURSIVE SubtreesInOrder(_, _, _)
SubtreesInOrder(root, es, k) ==
  IF k > Len(es) THEN <<>>
  ELSE (IF es[k] \in Dirs /\ ~PrunedNow(root, es[k])
        THEN OwnFilesFirst(root, es[k]) ELSE <<>>)
       \o SubtreesInOrder(root, es, k + 1)

OwnFilesFirst(root, d) ==
  IF d \in Unreadable THEN <<>>
  ELSE SelectSeqBy(Children[d],
                   {f \in Range(Children[d]) \cap Files : Accepts(f)}, 1)
       \o SubtreesInOrder(root, Children[d], 1)

\* C21: outside directories-only mode the result of the walk of a root is
\* ordered with each directory's own matching files first, followed by the
\* results of its subdirectories in listing order, depth-first, in find()
\* whatever the order in which the listings completed, and in findSync().
C21_OwnFilesFirstOrder ==
  ~directoriesOnly =>
    /\ (~touched /\ Succeeded) =>
         \A i \in 1..Len(walks) :
           walks[i].value = OwnFilesFirst(roots[i], roots[i])
    /\ SyncReturned =>
         sres.list = FlattenAll([i \in 1..Len(searchPaths) |->
                        OwnFilesFirst(searchPaths[i], searchPaths[i])], 1)

\* C22: when the root itself is pruned, its walk lists nothing and returns an
\* empty result in both modes: find() does not reject on its account and
\* fulfils with no entry of that root, and findSync() returns no entry of it.
C22_PrunedRootIsEmpty ==
  /\ \A i \in 1..Len(walks) :
       PrunedAtBegin(roots[i], roots[i]) =>
         /\ <<i, roots[i]>> \notin listed
         /\ walks[i].st # "rejected"
         /\ walks[i].st = "resolved" => walks[i].value = <<>>
  /\ (/\ Settled /\ Len(roots) > 0
      /\ \A i \in 1..Len(roots) : PrunedAtBegin(roots[i], roots[i]))
       => Succeeded /\ promise.list = <<>>
  /\ \A i \in 1..Len(searchPaths) :
       (sres.st # "none" /\ PrunedNow(searchPaths[i], searchPaths[i])) =>
         /\ <<i, searchPaths[i]>> \notin sres.listed
         /\ sres.st = "threw" => sres.err # TypeError
         /\ \A e \in Range(sres.list) : ~Under(e, searchPaths[i])

\* C23: when the walk of one root of a find() over several roots has failed,
\* the call has emitted no 'match' notification, before or after its 'error'
\* notification, whatever the order in which the walks completed.
C23_NoMatchWhenARootFails ==
  (Len(roots) > 1 /\ \E i \in 1..Len(walks) : walks[i].st = "rejected")
    => Count(TypesOf(events), "match") = 0

\* The proper descendant directories of root that the walk reaches: those
\* that are neither pruned nor behind a pruned directory.
TrackedPopulation(root) ==
  {d \in Dirs : d # root /\ Under(d, root) /\ ~BehindPruned(root, d)}

\* C24: in directories-only mode every root has its own accumulator, which
\* holds directories found under that root only, never the root, each once;
\* when the walk of the root is complete it holds exactly the proper
\* descendant directories of the root that are not pruned, and the result of
\* the root is that population filtered by the predicates.
C24_DirectoryPopulation ==
  /\ (directoriesOnly /\ ~touched) =>
       \A i \in 1..Len(tracked) :
         /\ \A d \in Range(tracked[i]) :
              d \in TrackedPopulation(roots[i]) /\ Count(tracked[i], d) = 1
         /\ walks[i].st = "resolved" =>
              /\ Range(tracked[i]) = TrackedPopulation(roots[i])
              /\ walks[i].value = Filter(tracked[i], began.m)
  /\ (directoriesOnly /\ SyncReturned) =>
       \A d \in Range(sres.list) :
         /\ \E i \in 1..Len(searchPaths) : d \in TrackedPopulation(searchPaths[i])
         /\ Count(sres.list, d) <=
              Cardinality({i \in 1..Len(searchPaths) :
                             d \in TrackedPopulation(searchPaths[i])})

\* Roots a and a/s: the accumulator of a holds a/s, that of a/s does not,
\* and a/s/t is in both.
C24_Witness ==
  /\ build = "ts"
  /\ directoriesOnly /\ ~touched /\ Succeeded
  /\ roots = <<"a", "a/s">>
  /\ nodes[1]["a/s/t"].st = "listed" /\ nodes[2]["a/s/t"].st = "listed"
  /\ Range(tracked[1]) = {"a/s", "a/.h", "a/s/t"}
  /\ tracked[2] = <<"a/s/t">>
  /\ walks[2].value = <<"a/s/t">>


(***************************************************************************)
(* C25: not() and the order of the builder calls.                          *)
(***************************************************************************)
\* not() was called at some point since construction, whatever was added
\* before or after it and however often it was called.
NotWasCalled == isDefined(notAt)

\* The negation of the conjunction of every filter added, those added after
\* the first not() call included.
AcceptsWhateverTheOrder(e) ==
  (\A k \in 1..Len(filters) : ApplyFilter(filters[k], e)) # NotWasCalled

\* C25: not() negates the conjunction of all filters of the search regardless
\* of call order.  The negation is in force exactly when not() was called at
\* least once; the matcher of a search begun under the present configuration
\* accepts an entry exactly when the conjunction of all filters added, before
\* or after not(), holds of it XOR not() was called; and the files find()
\* returns are those that matcher selects, so that neither the position of
\* not() among the addFilter calls nor a repeated not() changes the result.
C25_NotRegardlessOfOrder ==
  /\ negateFilters = NotWasCalled
  /\ (~touched /\ promise.st # "none") =>
       \A e \in Entries : Matches(began.m, e) = AcceptsWhateverTheOrder(e)
  /\ (build = "ts" /\ SyncReturned) =>
       \A e \in Entries : Matches(isMatch, e) = AcceptsWhateverTheOrder(e)
  /\ (~touched /\ Succeeded /\ ~directoriesOnly) =>
       \A f \in Files :
         Count(promise.list, f) =
           Cardinality({i \in 1..Len(roots) :
                          /\ Under(f, roots[i])
                          /\ ~BehindPruned(roots[i], f)
                          /\ AcceptsWhateverTheOrder(f)})

\* not() called before ext('txt') was added: the search of a still returns
\* its one file that is not .txt.
C25_Witness ==
  /\ build = "ts"
  /\ notAt = <<0>> /\ filters = <<"txt">> /\ ~directoriesOnly
  /\ ~touched /\ Succeeded
  /\ roots = <<"a">>
  /\ nodes[1]["a/s"].st = "listed"
  /\ promise.list = <<"a/s/g.log">>

====
